---- MODULE Spec2Model ----
(***************************************************************************)
(* ucompiler: the Python AST to Pycopy VM bytecode compiler                *)
(* (src/ucompiler/ucompiler/ucompiler.py).                                 *)
(*                                                                         *)
(* The compiler is a recursive AST visitor.  The model runs it as a state  *)
(* machine: `ks` is the stack of the suites being compiled (the Python     *)
(* call stack of the visit_* activations, with their locals), `bcs` the    *)
(* stack of Bytecode builders (self.bc and the saved prev_bc), `syms` the  *)
(* stack of symbol tables, loop_stack the compiler's loop_stack.  The AST  *)
(* is the input: each statement node is drawn from a bounded set at the    *)
(* moment the visitor reaches it and is logged in `visited`.               *)
(***************************************************************************)
EXTENDS Integers, Sequences, FiniteSets, TLC

VARIABLES pc, err, ks, bcs, syms, loop_stack, codeobjs, visited, fuel, rich

vars == <<pc, err, ks, bcs, syms, loop_stack, codeobjs, visited, fuel, rich>>

(***************************************************************************)
(* Bounds of the input.  A module is drawn from one of two families: a     *)
(* control-flow family (up to MaxStmts statements, nested at will, over    *)
(* the plain expression `a`) and an expression family (up to MaxRichStmts  *)
(* statements over the expressions of RichExprs).                          *)
(***************************************************************************)
MaxStmts == 5
MaxRichStmts == 2

\* visit_Num's window, ucompiler.py line 361
SmallIntBits == 30
SmallIntLimit == 2 ^ SmallIntBits

\* the iterator region GET_ITER_STACK reserves; `stk_ptr -= 4` and range(4)
IterSlots == 4

Last(s) == s[Len(s)]
Front(s) == SubSeq(s, 1, Len(s) - 1)
SetTop(s, v) == [s EXCEPT ![Len(s)] = v]
Max(a, b) == IF a >= b THEN a ELSE b
Abs(n) == IF n < 0 THEN -n ELSE n

(***************************************************************************)
(* AST nodes.  An expression node is E(kind, s, n, c, xs): s a string      *)
(* attribute (id, operator, literal), n an integer attribute (literal      *)
(* value, number of comparison operators, number of keywords), c the       *)
(* expression context of a Name or the asname of an alias, xs the child    *)
(* expressions.  A statement node is S(kind, s, n, f, es).                 *)
(***************************************************************************)
E(k, s, n, c, xs) == [k |-> k, s |-> s, n |-> n, c |-> c, xs |-> xs]
S(k, s, n, f, es) == [k |-> k, s |-> s, n |-> n, f |-> f, es |-> es]

Name(id, ctx) == E("Name", id, 0, ctx, <<>>)
Num(n) == E("Num", "int", n, "", <<>>)
Float == E("Num", "float", 0, "", <<>>)
Str(s) == E("Str", s, 0, "", <<>>)
Bytes(s) == E("Bytes", s, 0, "", <<>>)
Tuple(xs, ctx) == E("Tuple", "", 0, ctx, xs)
List(xs, ctx) == E("List", "", 0, ctx, xs)
SetE(xs) == E("Set", "", 0, "", xs)
\* Dict: xs holds keys and values interleaved, <<k1, v1, k2, v2, ...>>
Dict(kvs) == E("Dict", "", 0, "", kvs)
BinOp(l, op, r) == E("BinOp", op, 0, "", <<l, r>>)
UnaryOp(op, x) == E("UnaryOp", op, 0, "", <<x>>)
BoolOp(op, vs) == E("BoolOp", op, 0, "", vs)
\* Compare: s the first operator, n = len(node.ops), xs = <<left>> \o comparators
Compare(l, op, nops, cs) == E("Compare", op, nops, "", <<l>> \o cs)
\* Call: n = len(node.keywords), xs = <<func>> \o args
Call(f, args, nkw) == E("Call", "", nkw, "", <<f>> \o args)
\* node kinds the compiler defines no visit_ method for
Attribute(x, attr) == E("Attribute", attr, 0, "Load", <<x>>)
Subscript(x, i) == E("Subscript", "", 0, "Load", <<x, i>>)
Lambda(x) == E("Lambda", "", 0, "", <<x>>)
NameConstant(v) == E("NameConstant", v, 0, "", <<>>)
alias(name, asname, comps) == E("alias", name, 0, asname, comps)

(***************************************************************************)
(* The Bytecode builder (ubytecode.Bytecode, not part of the sources       *)
(* given: modelled from the specification, sections 3 and 4.1).            *)
(* An instruction is [op, n, s]: n the integer operand or label id, s the  *)
(* string operand.  labels[l] is the offset label l is bound at, -1 while  *)
(* unbound; nput[l] counts the put_label calls on l.  err holds the        *)
(* exception that is propagating ("" for none): every operation on a       *)
(* builder with a pending exception leaves it alone.                       *)
(***************************************************************************)
I(op, n, s) == [op |-> op, n |-> n, s |-> s]

Bytecode ==
  [code |-> <<>>, stk_ptr |-> 0, stk_max |-> 0, labels |-> <<>>, nput |-> <<>>,
   consts |-> <<>>, err |-> ""]

raise(bc, site) == IF bc.err # "" THEN bc ELSE [bc EXCEPT !.err = site]

BinaryOps ==
  {"BINARY_ADD", "BINARY_SUBTRACT", "BINARY_MULTIPLY", "BINARY_MAT_MULTIPLY",
   "BINARY_TRUE_DIVIDE", "BINARY_FLOOR_DIVIDE", "BINARY_MODULO", "BINARY_POWER",
   "BINARY_LSHIFT", "BINARY_RSHIFT", "BINARY_AND", "BINARY_OR", "BINARY_XOR",
   "BINARY_EQUAL", "BINARY_NOT_EQUAL", "BINARY_LESS", "BINARY_LESS_EQUAL",
   "BINARY_MORE", "BINARY_MORE_EQUAL", "BINARY_IS", "BINARY_IN"}

InplaceOps ==
  {"INPLACE_ADD", "INPLACE_SUBTRACT", "INPLACE_MULTIPLY", "INPLACE_MAT_MULTIPLY",
   "INPLACE_TRUE_DIVIDE", "INPLACE_FLOOR_DIVIDE", "INPLACE_MODULO", "INPLACE_POWER",
   "INPLACE_LSHIFT", "INPLACE_RSHIFT", "INPLACE_AND", "INPLACE_OR", "INPLACE_XOR"}

UnaryOps == {"UNARY_POSITIVE", "UNARY_NEGATIVE", "UNARY_INVERT", "UNARY_NOT"}

LoadOps ==
  {"LOAD_NAME", "LOAD_GLOBAL", "LOAD_FAST_N", "LOAD_DEREF", "LOAD_CONST_NONE",
   "LOAD_CONST_STRING", "LOAD_CONST_OBJ", "LOAD_CONST_SMALL_INT"}

StoreOps ==
  {"STORE_NAME", "STORE_GLOBAL", "STORE_FAST_N", "STORE_DEREF",
   "STORE_NAME_CONST", "STORE_GLOBAL_CONST"}

JumpOps ==
  {"JUMP", "POP_JUMP_IF_TRUE", "POP_JUMP_IF_FALSE", "JUMP_IF_TRUE_OR_POP",
   "JUMP_IF_FALSE_OR_POP", "FOR_ITER"}

\* The static stack effect of an opcode with integer operand n (for a jump:
\* the effect on the fall-through edge).
StackEffect(op, n) ==
  CASE op \in LoadOps -> 1
    [] op \in StoreOps -> -1
    [] op = "DUP_TOP" -> 1
    [] op = "POP_TOP" -> -1
    [] op \in {"BUILD_TUPLE", "BUILD_LIST", "BUILD_SET"} -> 1 - n
    [] op = "BUILD_MAP" -> 1
    [] op = "STORE_MAP" -> -2
    [] op \in BinaryOps \cup InplaceOps -> -1
    [] op \in UnaryOps -> 0
    [] op = "CALL_FUNCTION" -> -n
    [] op = "MAKE_FUNCTION" -> 1
    [] op = "IMPORT_NAME" -> -1
    [] op = "IMPORT_FROM" -> 1
    [] op = "IMPORT_STAR" -> -1
    [] op = "LOAD_ATTR" -> 0
    [] op = "RETURN_VALUE" -> -1
    [] op = "GET_ITER_STACK" -> IterSlots - 1
    [] op = "FOR_ITER" -> 1
    [] op = "JUMP" -> 0
    [] op \in {"POP_JUMP_IF_TRUE", "POP_JUMP_IF_FALSE"} -> -1
    [] op \in {"JUMP_IF_TRUE_OR_POP", "JUMP_IF_FALSE_OR_POP"} -> -1

\* Bytecode.add(opcode, operand): append, stk_ptr += effect, refresh stk_max
add(bc, op, n, s) ==
  IF bc.err # "" THEN bc
  ELSE LET p == bc.stk_ptr + StackEffect(op, n)
       IN [bc EXCEPT !.code = Append(@, I(op, n, s)),
                     !.stk_ptr = p,
                     !.stk_max = Max(@, p)]

\* Bytecode.get_label(): a fresh unbound id (the id is NewLabel(bc))
NewLabel(bc) == Len(bc.labels) + 1

get_label(bc) ==
  IF bc.err # "" THEN bc
  ELSE [bc EXCEPT !.labels = Append(@, -1), !.nput = Append(@, 0)]

\* Bytecode.put_label(id): bind to the current instruction offset
put_label(bc, l) ==
  IF bc.err # "" THEN bc
  ELSE [bc EXCEPT !.labels[l] = Len(bc.code), !.nput[l] = @ + 1]

\* Bytecode.jump(opcode, id): a branch to label id
jump(bc, op, l) == add(bc, op, l, "")

\* Bytecode.load_int(n): the inline immediate inside the small-int window,
\* the constant pool outside it
load_int(bc, n) ==
  IF Abs(n) < SmallIntLimit
  THEN add(bc, "LOAD_CONST_SMALL_INT", n, "")
  ELSE add(bc, "LOAD_CONST_OBJ", n, "int")

\* Bytecode.add_const(obj)
add_const(bc, obj) ==
  IF bc.err # "" THEN bc ELSE [bc EXCEPT !.consts = Append(@, obj)]

Bound(labels, l) == l \in 1..Len(labels) /\ labels[l] >= 0

JumpSites(code) == {i \in 1..Len(code) : code[i].op \in JumpOps}

\* Bytecode.get_codeobj(): finalization fails on a fixup whose label is unbound
Finalizable(bc) == \A i \in JumpSites(bc.code) : Bound(bc.labels, bc.code[i].n)

get_codeobj(bc) ==
  [co_name |-> "", co_argcount |-> 0, code |-> bc.code, labels |-> bc.labels,
   nput |-> bc.nput, consts |-> bc.consts, mpy_stacksize |-> bc.stk_max]

(***************************************************************************)
(* Symbol tables (usymtable, consumed and not constructed by the compiler: *)
(* modelled from the specification, section 3).  A table is named by the   *)
(* scope it gives every name; "MIXED" makes `a` a fast local and every     *)
(* other name a global.                                                    *)
(***************************************************************************)
SCOPE_NAME == 0
SCOPE_GLOBAL == 1
SCOPE_FAST == 2
SCOPE_DEREF == 3

NameOrder == <<"a", "b", "x", "f", "m", "n", "d">>

get_scope(sym, var) ==
  CASE sym = "NAME" -> SCOPE_NAME
    [] sym = "GLOBAL" -> SCOPE_GLOBAL
    [] sym = "FAST" -> SCOPE_FAST
    [] sym = "DEREF" -> SCOPE_DEREF
    [] sym = "MIXED" -> IF var = "a" THEN SCOPE_FAST ELSE SCOPE_GLOBAL

get_fast_local(sym, var) ==
  IF \E i \in 1..Len(NameOrder) : NameOrder[i] = var
  THEN (CHOOSE i \in 1..Len(NameOrder) : NameOrder[i] = var) - 1
  ELSE Len(NameOrder)

all_locals(sym) ==
  Cardinality({i \in 1..Len(NameOrder) :
                 get_scope(sym, NameOrder[i]) \in {SCOPE_FAST, SCOPE_DEREF}})

(***************************************************************************)
(* Expression visitors.  Each takes the node, the current builder and the  *)
(* current symbol table and gives the builder after the visit.             *)
(***************************************************************************)
LoadOpOf == <<"LOAD_NAME", "LOAD_GLOBAL", "LOAD_FAST_N", "LOAD_DEREF">>
StoreOpOf == <<"STORE_NAME", "STORE_GLOBAL", "STORE_FAST_N", "STORE_DEREF">>
StoreConstOpOf ==
  <<"STORE_NAME_CONST", "STORE_GLOBAL_CONST", "STORE_FAST_N", "STORE_DEREF">>

\* _visit_var with the store of a plain assignment taken for a definitional one
_visit_var_storeconst(var, ctx, bc, sym) ==
  LET scope == get_scope(sym, var)
  IN IF ctx \notin {"Load", "Store", "StoreConst"}
     THEN raise(bc, "_visit_var:329")
     ELSE LET op == CASE ctx = "Load" -> LoadOpOf[scope + 1]
                      [] ctx = "Store" -> StoreConstOpOf[scope + 1]
                      [] ctx = "StoreConst" -> StoreConstOpOf[scope + 1]
          IN IF scope \in {SCOPE_FAST, SCOPE_DEREF}
             THEN add(bc, op, get_fast_local(sym, var), "")
             ELSE add(bc, op, 0, var)

\* Compiler._visit_var, lines 320-335
_visit_var(var, ctx, bc, sym) ==
  LET scope == get_scope(sym, var)
  IN IF ctx \notin {"Load", "Store", "StoreConst"}
     THEN raise(bc, "_visit_var:329")
     ELSE LET op == CASE ctx = "Load" -> LoadOpOf[scope + 1]
                      [] ctx = "Store" -> StoreOpOf[scope + 1]
                      [] ctx = "StoreConst" -> StoreConstOpOf[scope + 1]
          IN IF scope \in {SCOPE_FAST, SCOPE_DEREF}
             THEN add(bc, op, get_fast_local(sym, var), "")
             ELSE add(bc, op, 0, var)

\* Compiler.visit_Name, lines 317-318
visit_Name(node, bc, sym) == _visit_var(node.s, node.c, bc, sym)

\* Compiler.visit_Num, lines 359-362
NumInWindow(n) == -SmallIntLimit < n /\ n < SmallIntLimit - 1

visit_Num(node, bc, sym) ==
  IF node.s # "int" THEN raise(bc, "visit_Num:360")
  ELSE IF ~NumInWindow(node.n) THEN raise(bc, "visit_Num:361")
  ELSE load_int(bc, node.n)

\* Compiler.visit_Str, visit_Bytes, lines 364-368
visit_Str(node, bc, sym) == add(bc, "LOAD_CONST_OBJ", 0, node.s)
visit_Bytes(node, bc, sym) == add(bc, "LOAD_CONST_OBJ", 0, node.s)

binop_map ==
  [Add |-> "BINARY_ADD", Sub |-> "BINARY_SUBTRACT", Mult |-> "BINARY_MULTIPLY",
   MatMult |-> "BINARY_MAT_MULTIPLY", Div |-> "BINARY_TRUE_DIVIDE",
   FloorDiv |-> "BINARY_FLOOR_DIVIDE", Mod |-> "BINARY_MODULO",
   Pow |-> "BINARY_POWER", LShift |-> "BINARY_LSHIFT", RShift |-> "BINARY_RSHIFT",
   BitAnd |-> "BINARY_AND", BitOr |-> "BINARY_OR", BitXor |-> "BINARY_XOR"]

inplaceop_map ==
  [Add |-> "INPLACE_ADD", Sub |-> "INPLACE_SUBTRACT", Mult |-> "INPLACE_MULTIPLY",
   MatMult |-> "INPLACE_MAT_MULTIPLY", Div |-> "INPLACE_TRUE_DIVIDE",
   FloorDiv |-> "INPLACE_FLOOR_DIVIDE", Mod |-> "INPLACE_MODULO",
   Pow |-> "INPLACE_POWER", LShift |-> "INPLACE_LSHIFT",
   RShift |-> "INPLACE_RSHIFT", BitAnd |-> "INPLACE_AND", BitOr |-> "INPLACE_OR",
   BitXor |-> "INPLACE_XOR"]

unop_map ==
  [UAdd |-> "UNARY_POSITIVE", USub |-> "UNARY_NEGATIVE",
   Invert |-> "UNARY_INVERT", Not |-> "UNARY_NOT"]

cmpop_map ==
  [Eq |-> "BINARY_EQUAL", NotEq |-> "BINARY_NOT_EQUAL", Lt |-> "BINARY_LESS",
   LtE |-> "BINARY_LESS_EQUAL", Gt |-> "BINARY_MORE", GtE |-> "BINARY_MORE_EQUAL",
   Is |-> "BINARY_IS", IsNot |-> "BINARY_IS", In |-> "BINARY_IN",
   NotIn |-> "BINARY_IN"]

\* ast.NodeVisitor.visit on a node the compiler defines no visit_ method for
\* (the ast package is not part of the sources given: by the specification,
\* section 7, an unsupported node is fatal)
generic_visit(node, bc, sym) == raise(bc, "unsupported")

RECURSIVE visit(_, _, _)
RECURSIVE visit_each(_, _, _)

\* `for v in lst: self.visit(v)`
visit_each(lst, bc, sym) ==
  IF lst = <<>> THEN bc
  ELSE visit_each(Tail(lst), visit(Head(lst), bc, sym), sym)

\* Compiler.visit_Tuple, visit_List, visit_Set, lines 337-350
visit_Tuple(node, bc, sym) ==
  add(visit_each(node.xs, bc, sym), "BUILD_TUPLE", Len(node.xs), "")
visit_List(node, bc, sym) ==
  add(visit_each(node.xs, bc, sym), "BUILD_LIST", Len(node.xs), "")
visit_Set(node, bc, sym) ==
  add(visit_each(node.xs, bc, sym), "BUILD_SET", Len(node.xs), "")

\* Compiler.visit_Dict, lines 352-357: value, key, STORE_MAP for each pair
RECURSIVE visit_pairs(_, _, _)
visit_pairs(kvs, bc, sym) ==
  IF kvs = <<>> THEN bc
  ELSE visit_pairs(Tail(Tail(kvs)),
                   add(visit(kvs[1], visit(kvs[2], bc, sym), sym), "STORE_MAP", 0, ""),
                   sym)

visit_Dict(node, bc, sym) ==
  visit_pairs(node.xs, add(bc, "BUILD_MAP", Len(node.xs) \div 2, ""), sym)

\* Compiler.visit_BinOp, lines 287-305
visit_BinOp(node, bc, sym) ==
  add(visit(node.xs[2], visit(node.xs[1], bc, sym), sym), binop_map[node.s], 0, "")

\* Compiler.visit_UnaryOp, lines 307-315
visit_UnaryOp(node, bc, sym) ==
  add(visit(node.xs[1], bc, sym), unop_map[node.s], 0, "")

\* Compiler.visit_BoolOp, lines 275-285
RECURSIVE visit_jump_each(_, _, _, _, _)
visit_jump_each(vs, op, l, bc, sym) ==
  IF vs = <<>> THEN bc
  ELSE visit_jump_each(Tail(vs), op, l, jump(visit(Head(vs), bc, sym), op, l), sym)

visit_BoolOp(node, bc, sym) ==
  LET op == IF node.s = "And" THEN "JUMP_IF_FALSE_OR_POP" ELSE "JUMP_IF_TRUE_OR_POP"
      join_l == NewLabel(bc)
      b1 == visit_jump_each(Front(node.xs), op, join_l, get_label(bc), sym)
  IN put_label(visit(Last(node.xs), b1, sym), join_l)

\* Compiler.visit_Compare, lines 254-273
CompareArity(node) == node.n = 1

visit_Compare(node, bc, sym) ==
  IF ~CompareArity(node) THEN raise(bc, "visit_Compare:255")
  ELSE LET b1 == add(visit(node.xs[2], visit(node.xs[1], bc, sym), sym),
                     cmpop_map[node.s], 0, "")
       IN IF node.s \in {"IsNot", "NotIn"} THEN add(b1, "UNARY_NOT", 0, "") ELSE b1

\* Compiler.visit_Call, lines 247-252
CallPositionalOnly(node) == node.n = 0

visit_Call(node, bc, sym) ==
  IF ~CallPositionalOnly(node) THEN raise(bc, "visit_Call:248")
  ELSE add(visit_each(node.xs, bc, sym), "CALL_FUNCTION", Len(node.xs) - 1, "")

\* ast.NodeVisitor.visit: dispatch on the node's class
visit(node, bc, sym) ==
  IF bc.err # "" THEN bc
  ELSE CASE node.k = "Name" -> visit_Name(node, bc, sym)
         [] node.k = "Num" -> visit_Num(node, bc, sym)
         [] node.k = "Str" -> visit_Str(node, bc, sym)
         [] node.k = "Bytes" -> visit_Bytes(node, bc, sym)
         [] node.k = "Tuple" -> visit_Tuple(node, bc, sym)
         [] node.k = "List" -> visit_List(node, bc, sym)
         [] node.k = "Set" -> visit_Set(node, bc, sym)
         [] node.k = "Dict" -> visit_Dict(node, bc, sym)
         [] node.k = "BinOp" -> visit_BinOp(node, bc, sym)
         [] node.k = "UnaryOp" -> visit_UnaryOp(node, bc, sym)
         [] node.k = "BoolOp" -> visit_BoolOp(node, bc, sym)
         [] node.k = "Compare" -> visit_Compare(node, bc, sym)
         [] node.k = "Call" -> visit_Call(node, bc, sym)
         [] OTHER -> generic_visit(node, bc, sym)

\* Compiler._visit_with_load_ctx, lines 51-59: the visit with node.ctx = Load
_visit_with_load_ctx(node, bc, sym) == visit([node EXCEPT !.c = "Load"], bc, sym)

(***************************************************************************)
(* Statement visitors that open no suite: each takes the statement node,   *)
(* the current builder, the current symbol table and loop_stack, and gives *)
(* the builder after the visit.                                            *)
(***************************************************************************)

\* Compiler.visit_Pass, lines 244-245
visit_Pass(node, bc, sym, ls) == bc

\* Compiler.visit_Expr, lines 240-242
visit_Expr(node, bc, sym, ls) == add(visit(node.es[1], bc, sym), "POP_TOP", 0, "")

\* Compiler.visit_Assign, lines 233-238; es = targets \o <<value>>
RECURSIVE dup_visit_each(_, _, _)
dup_visit_each(ts, bc, sym) ==
  IF ts = <<>> THEN bc
  ELSE dup_visit_each(Tail(ts), visit(Head(ts), add(bc, "DUP_TOP", 0, ""), sym), sym)

visit_Assign(node, bc, sym, ls) ==
  LET value == Last(node.es)
      targets == Front(node.es)
  IN visit(Last(targets),
           dup_visit_each(Front(targets), visit(value, bc, sym), sym), sym)

\* Compiler.visit_AugAssign, lines 212-231; es = <<target, value>>, s the operator
visit_AugAssign(node, bc, sym, ls) ==
  LET b1 == _visit_with_load_ctx(node.es[1], bc, sym)
      b2 == visit(node.es[2], b1, sym)
      b3 == add(b2, inplaceop_map[node.s], 0, "")
  IN visit(node.es[1], b3, sym)

\* Compiler.visit_Return, lines 205-210; es = <<>> for a bare return
visit_Return(node, bc, sym, ls) ==
  add(IF node.es = <<>> THEN add(bc, "LOAD_CONST_NONE", 0, "")
                        ELSE visit(node.es[1], bc, sym),
      "RETURN_VALUE", 0, "")

\* Compiler.visit_Import, lines 192-203.  An alias holds its dotted name in s,
\* the name's components (name.split(".")) in xs and its asname in c.
RECURSIVE load_attrs(_, _)
load_attrs(comps, bc) ==
  IF comps = <<>> THEN bc
  ELSE load_attrs(Tail(comps), add(bc, "LOAD_ATTR", 0, Head(comps).s))

import_one(n, bc, sym) ==
  LET b1 == add(add(load_int(bc, 0), "LOAD_CONST_NONE", 0, ""), "IMPORT_NAME", 0, n.s)
  IN IF n.c # ""
     THEN _visit_var(n.c, "StoreConst", load_attrs(Tail(n.xs), b1), sym)
     ELSE _visit_var(n.xs[1].s, "StoreConst", b1, sym)

RECURSIVE import_each(_, _, _)
import_each(names, bc, sym) ==
  IF names = <<>> THEN bc
  ELSE import_each(Tail(names), import_one(Head(names), bc, sym), sym)

visit_Import(node, bc, sym, ls) == import_each(node.es, bc, sym)

\* Compiler.visit_ImportFrom, lines 178-190; n the level, s the module
RECURSIVE load_names(_, _)
load_names(names, bc) ==
  IF names = <<>> THEN bc
  ELSE load_names(Tail(names), add(bc, "LOAD_CONST_STRING", 0, Head(names).s))

RECURSIVE import_from_each(_, _, _)
import_from_each(names, bc, sym) ==
  IF names = <<>> THEN bc
  ELSE LET n == Head(names)
           b1 == add(bc, "IMPORT_FROM", 0, n.s)
       IN import_from_each(Tail(names),
            _visit_var(IF n.c # "" THEN n.c ELSE n.s, "StoreConst", b1, sym), sym)

visit_ImportFrom(node, bc, sym, ls) ==
  LET b1 == load_names(node.es, load_int(bc, node.n))
      b2 == add(add(b1, "BUILD_TUPLE", Len(node.es), ""), "IMPORT_NAME", 0, node.s)
  IN IF Len(node.es) = 1 /\ node.es[1].s = "*"
     THEN add(b2, "IMPORT_STAR", 0, "")
     ELSE add(import_from_each(node.es, b2, sym), "POP_TOP", 0, "")

\* Compiler.visit_Continue, lines 150-152
visit_Continue(node, bc, sym, ls) ==
  IF ls = <<>> THEN raise(bc, "visit_Continue:151")
  ELSE jump(bc, "JUMP", Last(ls).c)

\* Compiler.visit_Break, lines 154-161
RECURSIVE pop_tops(_, _)
pop_tops(bc, k) == IF k = 0 THEN bc ELSE pop_tops(add(bc, "POP_TOP", 0, ""), k - 1)

\* visit_Break with the kind of the outermost loop consulted, not the innermost
visit_Break_outermost(node, bc, sym, ls) ==
  IF ls = <<>> THEN raise(bc, "visit_Break:155")
  ELSE LET s == bc.stk_ptr
           b1 == IF ls[1].t = "for"
                 THEN [pop_tops(bc, IterSlots) EXCEPT !.stk_ptr = s]
                 ELSE bc
       IN jump(b1, "JUMP", Last(ls).b)

visit_Break(node, bc, sym, ls) ==
  IF ls = <<>> THEN raise(bc, "visit_Break:155")
  ELSE LET s == bc.stk_ptr
           b1 == IF Last(ls).t = "for"
                 THEN [pop_tops(bc, IterSlots) EXCEPT !.stk_ptr = s]
                 ELSE bc
       IN jump(b1, "JUMP", Last(ls).b)

\* ast.NodeVisitor.visit on a statement the compiler defines no visit_ method
\* for (class, try, with, delete, ...): fatal by the specification, section 7
generic_visit_stmt(node, bc, sym, ls) == raise(bc, "unsupported")

(***************************************************************************)
(* Statements that open suites.  A frame of `ks` is one suite in progress  *)
(* with the locals of the visit_* activation that compiles it: role names  *)
(* the suite, l1, l2, l3 are the activation's labels, org is the           *)
(* org_stk_ptr _visit_suite took before the statement, x the node's test   *)
(* (a while visits it after its body), name and argc the function's, n the *)
(* number of statements of the suite visited so far and last the class of  *)
(* the last of them.                                                       *)
(***************************************************************************)
NoExpr == E("", "", 0, "", <<>>)

F(role, l1, l2, l3, org, x, name, argc) ==
  [role |-> role, l1 |-> l1, l2 |-> l2, l3 |-> l3, org |-> org, x |-> x,
   name |-> name, argc |-> argc, n |-> 0, last |-> ""]

LoopEntry(c, b, t) == [c |-> c, b |-> b, t |-> t]

\* self.loop_stack.append(...), lines 127 and 141
loop_stack_append(ls, c, b, t) == Append(ls, LoopEntry(c, b, t))

\* a loop that leaves its entry on loop_stack
loop_stack_keep(ls) == ls

\* self.loop_stack.pop(), lines 129 and 143
loop_stack_pop(ls) == Front(ls)

\* Compiler._visit_suite, line 69: the statement left stk_ptr where it was
_visit_suite_assert(bc, org_stk_ptr) ==
  IF bc.stk_ptr # org_stk_ptr THEN raise(bc, "_visit_suite:69") ELSE bc

\* Compiler.visit_For, lines 120-126; es = <<target, iter>>
For_head(node, bc, sym) ==
  LET test_l == NewLabel(bc)
      end_l == test_l + 1
      b1 == visit(node.es[2], get_label(get_label(bc)), sym)
      b2 == put_label(add(b1, "GET_ITER_STACK", 0, ""), test_l)
  IN visit(node.es[1], jump(b2, "FOR_ITER", end_l), sym)

\* Compiler.visit_For, lines 130-132; l1 = test_l, l3 = end_l
For_tail(f, bc) ==
  LET b1 == put_label(jump(bc, "JUMP", f.l1), f.l3)
  IN [b1 EXCEPT !.stk_ptr = @ - IterSlots]

\* Compiler.visit_While, lines 136-140; l1 = test_l, l2 = body_l, l3 = end_l
While_head(bc) ==
  LET test_l == NewLabel(bc)
  IN put_label(jump(get_label(get_label(get_label(bc))), "JUMP", test_l), test_l + 1)

\* Compiler.visit_While, lines 144-146
While_test(f, bc, sym) ==
  jump(visit(f.x, put_label(bc, f.l1), sym), "POP_JUMP_IF_TRUE", f.l2)

\* Compiler.visit_While, line 148
While_tail(f, bc) == put_label(bc, f.l3)

\* Compiler.visit_If, lines 164-168 and 174; n = 1 when node.orelse is not empty
If_head(node, bc, sym) ==
  LET b1 == visit(node.es[1], bc, sym)
      join_l == NewLabel(b1)
      b2 == get_label(b1)
  IN IF node.n = 1
     THEN jump(get_label(b2), "POP_JUMP_IF_FALSE", join_l + 1)
     ELSE jump(b2, "POP_JUMP_IF_FALSE", join_l)

\* visit_If with join_l bound where the else-branch starts as well
If_orelse_join(f, bc) == put_label(put_label(jump(bc, "JUMP", f.l1), f.l2), f.l1)

\* Compiler.visit_If, lines 170-171; l1 = join_l, l2 = else_l
If_orelse(f, bc) == put_label(jump(bc, "JUMP", f.l1), f.l2)

\* Compiler.visit_If, line 176
If_tail(f, bc) == put_label(bc, f.l1)

\* Compiler._visit_function, lines 81-85: the parameter shapes rejected
args_assert(node) ==
  CASE node.f = "vararg" -> "_visit_function:81"
    [] node.f = "kwonlyargs" -> "_visit_function:82"
    [] node.f = "kw_defaults" -> "_visit_function:83"
    [] node.f = "kwarg" -> "_visit_function:84"
    [] node.f = "defaults" -> "_visit_function:85"
    [] OTHER -> ""

ArgNames == <<"a", "b">>

\* Compiler._visit_function, lines 91-95: the function's builder
RECURSIVE add_consts(_, _)
add_consts(bc, names) ==
  IF names = <<>> THEN bc ELSE add_consts(add_const(bc, Head(names)), Tail(names))

Function_head(node) == add_consts(Bytecode, SubSeq(ArgNames, 1, node.n))

\* Compiler._visit_function, lines 98-100: the implicit `return None`
Function_return(f, bc) ==
  IF f.last # "Return"
  THEN add(add(bc, "LOAD_CONST_NONE", 0, ""), "RETURN_VALUE", 0, "")
  ELSE bc

\* Compiler._visit_function, lines 102-108
Function_codeobj(f, bc, sym) ==
  [get_codeobj(bc) EXCEPT !.co_name = f.name, !.co_argcount = f.argc,
                          !.mpy_stacksize = @ + all_locals(sym)]

\* Compiler._visit_function, lines 113-114, in the enclosing builder
Function_tail(f, bc, sym) ==
  _visit_var(f.name, "StoreConst", add(bc, "MAKE_FUNCTION", 0, f.name), sym)

\* Compiler.visit_Module, lines 76-77
Module_tail(bc) == add(add(bc, "LOAD_CONST_NONE", 0, ""), "RETURN_VALUE", 0, "")

\* compile_ast, lines 378-380
Module_codeobj(bc) == [get_codeobj(bc) EXCEPT !.co_name = "<module>"]

(***************************************************************************)
(* The inputs.                                                             *)
(***************************************************************************)
A == Name("a", "Load")
One == Num(1)
Ta == Name("a", "Store")
Tb == Name("b", "Store")
Tx == Name("x", "Store")

\* the expressions of the control-flow family
FlowExprs == {A}

\* the expressions every statement of the expression family is tried with
CoreExprs ==
  {A, One,
   BoolOp("And", <<A, One>>),
   Call(A, <<A, One>>, 0),
   Compare(A, "Lt", 2, <<A, A>>),
   Attribute(A, "x")}

\* the expressions an expression statement, `x = e` and `return e` are tried with
RichExprs ==
  CoreExprs \cup
  {Num(2), Num(SmallIntLimit - 2), Num(SmallIntLimit - 1), Num(SmallIntLimit),
   Num(-(SmallIntLimit - 1)), Num(-SmallIntLimit), Float,
   Str("s"), Bytes("s"),
   Tuple(<<>>, "Load"), Tuple(<<A, One>>, "Load"), List(<<A>>, "Load"),
   SetE(<<A, A, One>>),
   Dict(<<>>), Dict(<<Str("s"), One>>), Dict(<<A, One, One, A>>),
   BinOp(A, "Add", One),
   BinOp(BinOp(A, "Mult", A), "BitXor", Tuple(<<A, One, A>>, "Load")),
   UnaryOp("USub", A), UnaryOp("Not", Compare(A, "In", 1, <<A>>)),
   BoolOp("Or", <<A, A, One>>),
   BoolOp("And", <<BoolOp("Or", <<A, One>>), Call(A, <<>>, 0)>>),
   Compare(A, "Eq", 1, <<One>>), Compare(A, "IsNot", 1, <<A>>),
   Compare(One, "NotIn", 1, <<A>>),
   Call(A, <<>>, 0), Call(Call(A, <<One>>, 0), <<A, A, A>>, 0),
   Call(A, <<A>>, 1),
   Subscript(A, One), Lambda(A), NameConstant("None"),
   List(<<A, Attribute(A, "x")>>, "Load"),
   BinOp(A, "Sub", Num(SmallIntLimit - 1))}

\* the target lists of an assignment (node.targets)
TargetLists ==
  {<<Tx>>, <<Ta, Tb>>, <<Ta, Tb, Tx>>,
   <<Tuple(<<Ta>>, "Store")>>, <<Tuple(<<Ta, Tb>>, "Store")>>,
   <<List(<<Ta, Tb>>, "Store")>>}

ForTargets == {Ta, Tuple(<<Ta>>, "Store"), Tuple(<<Ta, Tb>>, "Store")}

ImportNames ==
  {<<alias("m", "", <<Str("m")>>)>>,
   <<alias("m", "x", <<Str("m")>>)>>,
   <<alias("m.n", "", <<Str("m"), Str("n")>>)>>,
   <<alias("m.n.d", "x", <<Str("m"), Str("n"), Str("d")>>)>>,
   <<alias("m", "", <<Str("m")>>), alias("m.n", "x", <<Str("m"), Str("n")>>)>>}

ImportFromNames ==
  {<<alias("*", "", <<>>)>>,
   <<alias("a", "", <<>>)>>,
   <<alias("a", "x", <<>>)>>,
   <<alias("a", "", <<>>), alias("b", "x", <<>>)>>}

\* node.decorator_list of a function definition
Decorators == {<<>>, <<Name("d", "Load")>>, <<Attribute(A, "x")>>}

FlowStmts ==
  {S("Pass", "", 0, "", <<>>), S("Break", "", 0, "", <<>>),
   S("Continue", "", 0, "", <<>>), S("Return", "", 0, "", <<>>),
   S("If", "", 0, "", <<A>>), S("If", "", 1, "", <<A>>),
   S("While", "", 0, "", <<A>>), S("For", "", 0, "", <<Ta, A>>),
   S("FunctionDef", "f", 0, "plain", <<>>)}

RichStmts ==
  {S("Pass", "", 0, "", <<>>), S("Break", "", 0, "", <<>>),
   S("Continue", "", 0, "", <<>>), S("Return", "", 0, "", <<>>)}
  \cup {S("Expr", "", 0, "", <<e>>) : e \in RichExprs}
  \cup {S("Return", "", 0, "", <<e>>) : e \in RichExprs}
  \cup {S("Assign", "", 0, "", <<Tx, e>>) : e \in RichExprs}
  \cup {S("Assign", "", 0, "", ts \o <<e>>) : ts \in TargetLists, e \in CoreExprs}
  \cup {S("Assign", "", 0, "", <<Ta, Tb, Num(2)>>)}
  \cup {S("AugAssign", op, 0, "", <<Ta, e>>) : op \in {"Add", "BitXor"}, e \in CoreExprs}
  \cup {S("If", "", n, "", <<e>>) : n \in {0, 1}, e \in CoreExprs}
  \cup {S("While", "", 0, "", <<e>>) : e \in CoreExprs}
  \cup {S("For", "", 0, "", <<tg, e>>) : tg \in ForTargets, e \in CoreExprs}
  \cup {S("Import", "", 0, "", ns) : ns \in ImportNames}
  \cup {S("ImportFrom", m, lv, "", ns) :
          m \in {"m", ""}, lv \in {0, 1}, ns \in ImportFromNames}
  \cup {S("FunctionDef", "f", n, "plain", ds) :
          n \in {0, 2}, ds \in Decorators}
  \cup {S("FunctionDef", "f", 1, sh, <<>>) :
          sh \in {"vararg", "kwonlyargs", "kwarg", "defaults"}}
  \cup {S(k, "", 0, "", <<>>) : k \in {"ClassDef", "Try", "With", "Delete"}}

Stmts(r) == IF r THEN RichStmts ELSE FlowStmts

\* symtab_map[node] for a module and for a function
ModuleSymtabs(r) == IF r THEN {"NAME", "GLOBAL"} ELSE {"NAME"}
FunctionSymtabs(r) == IF r THEN {"FAST", "GLOBAL", "DEREF", "MIXED"} ELSE {"FAST"}

(***************************************************************************)
(* The state machine.                                                      *)
(***************************************************************************)
bc_cur == Last(bcs)
symtab == Last(syms)
top == Last(ks)

\* Compiler.__init__, lines 42-49, and the module handed to compile_ast
Init ==
  /\ pc = "init"
  /\ err = ""
  /\ ks = <<>>
  /\ bcs = <<>>
  /\ syms = <<>>
  /\ loop_stack = <<>>
  /\ codeobjs = <<>>
  /\ visited = <<>>
  /\ rich \in BOOLEAN
  /\ fuel = IF rich THEN MaxRichStmts ELSE MaxStmts

\* an exception leaves the compiler: compile_ast returns nothing
Abort(site) ==
  /\ pc' = "fail"
  /\ err' = site
  /\ UNCHANGED <<ks, bcs, syms, loop_stack, codeobjs>>

\* Compiler.visit_Module, lines 72-75, up to the body
visit_Module ==
  /\ pc = "init"
  /\ \E sym \in ModuleSymtabs(rich) :
       /\ syms' = <<sym>>
       /\ bcs' = <<Bytecode>>
       /\ ks' = <<F("module", 0, 0, 0, 0, NoExpr, "<module>", 0)>>
  /\ pc' = "run"
  /\ UNCHANGED <<err, loop_stack, codeobjs, visited, fuel, rich>>

\* _visit_suite reaches statement st of the suite on top of ks
Reach(st) ==
  /\ pc = "run"
  /\ fuel > 0
  /\ visited' = Append(visited, st)
  /\ fuel' = fuel - 1
  /\ rich' = rich

Counted(f, st) == [f EXCEPT !.n = @ + 1, !.last = st.k]

\* one turn of _visit_suite's loop (lines 64-69) on a statement that opens no
\* suite: b1 is the builder after self.visit(s)
Simple(st, b1) ==
  LET b2 == _visit_suite_assert(b1, bc_cur.stk_ptr)
  IN IF b2.err # "" THEN Abort(b2.err)
     ELSE /\ bcs' = SetTop(bcs, b2)
          /\ ks' = SetTop(ks, Counted(top, st))
          /\ UNCHANGED <<pc, err, syms, loop_stack, codeobjs>>

\* the statement opened a suite: frame f goes on ks
Open(st, b1, f, ls) ==
  IF b1.err # "" THEN Abort(b1.err)
  ELSE /\ bcs' = SetTop(bcs, b1)
       /\ ks' = Append(SetTop(ks, Counted(top, st)), f)
       /\ loop_stack' = ls
       /\ UNCHANGED <<pc, err, syms, codeobjs>>

\* the statement whose suites are done returns to _visit_suite (line 69)
Close(b1) ==
  LET b2 == _visit_suite_assert(b1, top.org)
  IN IF b2.err # "" THEN Abort(b2.err)
     ELSE /\ bcs' = SetTop(bcs, b2)
          /\ ks' = Front(ks)
          /\ UNCHANGED <<pc, err, syms, loop_stack, codeobjs>>

Idle == UNCHANGED <<visited, fuel, rich>>

stmt_Pass ==
  \E st \in Stmts(rich) :
    st.k = "Pass" /\ Reach(st) /\ Simple(st, visit_Pass(st, bc_cur, symtab, loop_stack))

stmt_Expr ==
  \E st \in Stmts(rich) :
    st.k = "Expr" /\ Reach(st) /\ Simple(st, visit_Expr(st, bc_cur, symtab, loop_stack))

stmt_Assign ==
  \E st \in Stmts(rich) :
    st.k = "Assign" /\ Reach(st)
    /\ Simple(st, visit_Assign(st, bc_cur, symtab, loop_stack))

stmt_AugAssign ==
  \E st \in Stmts(rich) :
    st.k = "AugAssign" /\ Reach(st)
    /\ Simple(st, visit_AugAssign(st, bc_cur, symtab, loop_stack))

stmt_Return ==
  \E st \in Stmts(rich) :
    st.k = "Return" /\ Reach(st)
    /\ Simple(st, visit_Return(st, bc_cur, symtab, loop_stack))

stmt_Import ==
  \E st \in Stmts(rich) :
    st.k = "Import" /\ Reach(st)
    /\ Simple(st, visit_Import(st, bc_cur, symtab, loop_stack))

stmt_ImportFrom ==
  \E st \in Stmts(rich) :
    st.k = "ImportFrom" /\ Reach(st)
    /\ Simple(st, visit_ImportFrom(st, bc_cur, symtab, loop_stack))

stmt_Break ==
  \E st \in Stmts(rich) :
    st.k = "Break" /\ Reach(st)
    /\ Simple(st, visit_Break(st, bc_cur, symtab, loop_stack))

stmt_Continue ==
  \E st \in Stmts(rich) :
    st.k = "Continue" /\ Reach(st)
    /\ Simple(st, visit_Continue(st, bc_cur, symtab, loop_stack))

stmt_unsupported ==
  \E st \in Stmts(rich) :
    st.k \in {"ClassDef", "Try", "With", "Delete"} /\ Reach(st)
    /\ Simple(st, generic_visit_stmt(st, bc_cur, symtab, loop_stack))

\* Compiler.visit_If, lines 163-169 and 173-175, up to node.body
stmt_If ==
  \E st \in Stmts(rich) :
    /\ st.k = "If" /\ Reach(st)
    /\ LET b1 == If_head(st, bc_cur, symtab)
           n == Len(b1.labels)
       IN Open(st, b1,
               IF st.n = 1
               THEN F("if_body", n - 1, n, 0, bc_cur.stk_ptr, NoExpr, "", 0)
               ELSE F("if_body", n, 0, 0, bc_cur.stk_ptr, NoExpr, "", 0),
               loop_stack)

\* Compiler.visit_If, lines 170-172: node.body is done, node.orelse follows
If_else ==
  /\ pc = "run" /\ ks # <<>>
  /\ top.role = "if_body" /\ top.n > 0 /\ top.l2 # 0
  /\ bcs' = SetTop(bcs, If_orelse(top, bc_cur))
  /\ ks' = SetTop(ks, [top EXCEPT !.role = "if_orelse", !.n = 0, !.last = ""])
  /\ UNCHANGED <<pc, err, syms, loop_stack, codeobjs>>
  /\ Idle

\* Compiler.visit_If, line 176, and the return to _visit_suite
If_end ==
  /\ pc = "run" /\ ks # <<>>
  /\ top.n > 0
  /\ top.role = "if_orelse" \/ (top.role = "if_body" /\ top.l2 = 0)
  /\ Close(If_tail(top, bc_cur))
  /\ Idle

\* Compiler.visit_For, lines 119-128, up to node.body
stmt_For ==
  \E st \in Stmts(rich) :
    /\ st.k = "For" /\ Reach(st)
    /\ LET test_l == NewLabel(bc_cur)
           end_l == test_l + 1
       IN Open(st, For_head(st, bc_cur, symtab),
               F("for_body", test_l, 0, end_l, bc_cur.stk_ptr, NoExpr, "", 0),
               loop_stack_append(loop_stack, test_l, end_l, "for"))

\* Compiler.visit_For, lines 129-133: node.body is done, node.orelse follows
For_else ==
  /\ pc = "run" /\ ks # <<>>
  /\ top.role = "for_body" /\ top.n > 0
  /\ loop_stack' = loop_stack_pop(loop_stack)
  /\ bcs' = SetTop(bcs, For_tail(top, bc_cur))
  /\ ks' = SetTop(ks, [top EXCEPT !.role = "for_orelse", !.n = 0, !.last = ""])
  /\ UNCHANGED <<pc, err, syms, codeobjs>>
  /\ Idle

\* visit_For returns to _visit_suite
For_end ==
  /\ pc = "run" /\ ks # <<>>
  /\ top.role = "for_orelse"
  /\ Close(bc_cur)
  /\ Idle

\* Compiler.visit_While, lines 135-142, up to node.body
stmt_While ==
  \E st \in Stmts(rich) :
    /\ st.k = "While" /\ Reach(st)
    /\ LET test_l == NewLabel(bc_cur)
       IN Open(st, While_head(bc_cur),
               F("while_body", test_l, test_l + 1, test_l + 2, bc_cur.stk_ptr,
                 st.es[1], "", 0),
               loop_stack_append(loop_stack, test_l, test_l + 2, "while"))

\* Compiler.visit_While, lines 143-147: node.body is done, the test and
\* node.orelse follow
While_else ==
  /\ pc = "run" /\ ks # <<>>
  /\ top.role = "while_body" /\ top.n > 0
  /\ LET b1 == While_test(top, bc_cur, symtab)
     IN IF b1.err # "" THEN Abort(b1.err)
        ELSE /\ loop_stack' = loop_stack_pop(loop_stack)
             /\ bcs' = SetTop(bcs, b1)
             /\ ks' = SetTop(ks, [top EXCEPT !.role = "while_orelse", !.n = 0,
                                             !.last = ""])
             /\ UNCHANGED <<pc, err, syms, codeobjs>>
  /\ Idle

\* Compiler.visit_While, line 148, and the return to _visit_suite
While_end ==
  /\ pc = "run" /\ ks # <<>>
  /\ top.role = "while_orelse"
  /\ Close(While_tail(top, bc_cur))
  /\ Idle

\* Compiler._visit_function, lines 79-97, up to node.body
stmt_FunctionDef ==
  \E st \in Stmts(rich) :
    /\ st.k = "FunctionDef" /\ Reach(st)
    /\ IF args_assert(st) # "" THEN Abort(args_assert(st))
       ELSE \E sym \in FunctionSymtabs(rich) :
              /\ syms' = Append(syms, sym)
              /\ bcs' = Append(bcs, Function_head(st))
              /\ ks' = Append(SetTop(ks, Counted(top, st)),
                              F("function", 0, 0, 0, bc_cur.stk_ptr, NoExpr, st.s, st.n))
              /\ UNCHANGED <<pc, err, loop_stack, codeobjs>>

\* Compiler._visit_function, lines 98-114, and the return to _visit_suite
Function_end ==
  /\ pc = "run" /\ ks # <<>>
  /\ top.role = "function" /\ top.n > 0
  /\ LET b1 == Function_return(top, bc_cur)
         outer == bcs[Len(bcs) - 1]
         b2 == _visit_suite_assert(
                 Function_tail(top, outer, syms[Len(syms) - 1]), top.org)
     IN IF ~Finalizable(b1) THEN Abort("get_codeobj")
        ELSE IF b2.err # "" THEN Abort(b2.err)
        ELSE /\ codeobjs' = Append(codeobjs, Function_codeobj(top, b1, symtab))
             /\ bcs' = SetTop(Front(bcs), b2)
             /\ syms' = Front(syms)
             /\ ks' = Front(ks)
             /\ UNCHANGED <<pc, err, loop_stack>>
  /\ Idle

\* Compiler.visit_Module, lines 76-77, and compile_ast, lines 378-380
compile_ast ==
  /\ pc = "run" /\ ks # <<>>
  /\ top.role = "module"
  /\ LET b1 == Module_tail(bc_cur)
     IN IF ~Finalizable(b1) THEN Abort("get_codeobj")
        ELSE /\ codeobjs' = Append(codeobjs, Module_codeobj(b1))
             /\ bcs' = SetTop(bcs, b1)
             /\ ks' = <<>>
             /\ pc' = "done"
             /\ UNCHANGED <<err, syms, loop_stack>>
  /\ Idle

Next ==
  \/ visit_Module
  \/ stmt_Pass
  \/ stmt_Expr
  \/ stmt_Assign
  \/ stmt_AugAssign
  \/ stmt_Return
  \/ stmt_Import
  \/ stmt_ImportFrom
  \/ stmt_Break
  \/ stmt_Continue
  \/ stmt_unsupported
  \/ stmt_If
  \/ If_else
  \/ If_end
  \/ stmt_For
  \/ For_else
  \/ For_end
  \/ stmt_While
  \/ While_else
  \/ While_end
  \/ stmt_FunctionDef
  \/ Function_end
  \/ compile_ast

Spec == Init /\ [][Next]_vars

(***************************************************************************)
(* An abstract VM over an emitted code object: it follows every control    *)
(* flow edge and tracks the operand-stack depth alone.  A point is         *)
(* <<offset, depth>>: the depth on entry to the instruction at offset.     *)
(***************************************************************************)
Target(co, ins) == co.labels[ins.n]

VMSucc(co, p) ==
  LET o == p[1]
      d == p[2]
      ins == co.code[o + 1]
  IN CASE ins.op = "RETURN_VALUE" -> {<<Len(co.code), d - 1>>}
       [] ins.op = "JUMP" -> {<<Target(co, ins), d>>}
       [] ins.op \in {"POP_JUMP_IF_TRUE", "POP_JUMP_IF_FALSE"} ->
            {<<o + 1, d - 1>>, <<Target(co, ins), d - 1>>}
       [] ins.op \in {"JUMP_IF_TRUE_OR_POP", "JUMP_IF_FALSE_OR_POP"} ->
            {<<o + 1, d - 1>>, <<Target(co, ins), d>>}
       [] ins.op = "FOR_ITER" ->
            {<<o + 1, d + 1>>, <<Target(co, ins), d - IterSlots>>}
       [] OTHER -> {<<o + 1, d + StackEffect(ins.op, ins.n)>>}

DepthOk(co, p) == 0 <= p[2] /\ p[2] <= co.mpy_stacksize

\* a point is followed while it is inside the code and its depth is legal
Live(co, p) == p[1] < Len(co.code) /\ DepthOk(co, p)

RECURSIVE VMExplore(_, _, _)
VMExplore(co, frontier, seen) ==
  IF frontier = {} THEN seen
  ELSE LET next == UNION {VMSucc(co, p) : p \in {q \in frontier : Live(co, q)}}
       IN VMExplore(co, next \ (seen \cup frontier), seen \cup frontier)

VMReach(co) == VMExplore(co, {<<0, 0>>}, {})

VMOk(co) == \A p \in VMReach(co) : DepthOk(co, p)

(***************************************************************************)
(* Views of the state the claims are stated over.                          *)
(***************************************************************************)
Indices(s) == 1..Len(s)

\* the builder frame i of ks emits into: one more for each function above
BcIndex(i) == 1 + Cardinality({j \in 1..i : ks[j].role = "function"})

LoopRoles == {"for_body", "while_body"}

\* the loops whose bodies are being compiled, outermost first
LoopFrames == {i \in Indices(ks) : ks[i].role \in LoopRoles}

RECURSIVE EntriesOf(_, _)
EntriesOf(frames, i) ==
  IF i > Len(frames) THEN <<>>
  ELSE (IF frames[i].role \in LoopRoles
        THEN <<LoopEntry(frames[i].l1, frames[i].l3,
                         IF frames[i].role = "for_body" THEN "for" ELSE "while")>>
        ELSE <<>>) \o EntriesOf(frames, i + 1)

\* the function being compiled: its frame's index, 0 at module level
CurrentFunction ==
  IF \E i \in Indices(ks) : ks[i].role = "function"
  THEN CHOOSE i \in Indices(ks) :
         ks[i].role = "function" /\ \A j \in Indices(ks) : ks[j].role = "function" => j <= i
  ELSE 0

\* the loops of the function (or module) being compiled that enclose the
\* statement _visit_suite is at
OwnLoops == {i \in LoopFrames : i > CurrentFunction}

InnermostOf(frames) == CHOOSE i \in frames : \A j \in frames : j <= i

\* the step visits a statement of class k
Visits(k) == visited' # visited /\ Last(visited').k = k

\* the instructions the step appends to the current builder
Emitted == SubSeq(bc_cur'.code, Len(bc_cur.code) + 1, Len(bc_cur'.code))

RECURSIVE Repeat(_, _)
Repeat(x, k) == IF k = 0 THEN <<>> ELSE <<x>> \o Repeat(x, k - 1)

(***************************************************************************)
(* The claims.                                                             *)
(***************************************************************************)

\* C1: every statement of every suite leaves the shadow stk_ptr where it found
\* it, so the assertion of _visit_suite (line 69) never fails.
C1_StatementsBalanced == err # "_visit_suite:69"

\* C2: in every emitted code object the operand-stack depth, followed along
\* every control-flow path, stays within 0..stacksize.
C2_DepthWithinStacksize == \A i \in Indices(codeobjs) : VMOk(codeobjs[i])

\* C3: in every emitted code object every label a jump targets was bound in
\* that code object's builder, and bound exactly once.
C3_LabelsBoundOnce ==
  \A i \in Indices(codeobjs) :
    LET co == codeobjs[i]
    IN \A j \in JumpSites(co.code) :
         LET l == co.code[j].n
         IN l \in 1..Len(co.labels) /\ co.labels[l] >= 0 /\ co.nput[l] = 1

\* C3's case: a completed module with a nested function, both with jumps, among
\* them a loop's and an if/else's
C3_Witness ==
  /\ pc = "done"
  /\ Len(codeobjs) = 2
  /\ \A i \in Indices(codeobjs) : Cardinality(JumpSites(codeobjs[i].code)) >= 2
  /\ \E i \in Indices(codeobjs) :
       \E j \in JumpSites(codeobjs[i].code) : codeobjs[i].code[j].op = "FOR_ITER"

\* C4: a break whose innermost enclosing loop is a for emits four POP_TOP and
\* then JUMP to that loop's break target, stk_ptr unchanged; a break whose
\* innermost enclosing loop is a while emits the JUMP alone.
C4_BreakLowering ==
  [][(Visits("Break") /\ pc' = "run" /\ OwnLoops # {}) =>
       LET f == ks[InnermostOf(OwnLoops)]
       IN IF f.role = "for_body"
          THEN /\ Emitted = Repeat(I("POP_TOP", 0, ""), 4) \o <<I("JUMP", f.l3, "")>>
               /\ bc_cur'.stk_ptr = bc_cur.stk_ptr
          ELSE Emitted = <<I("JUMP", f.l3, "")>>]_vars

\* C4's case: the break of a while that is nested inside a for has been compiled
C4_Witness ==
  /\ pc = "run"
  /\ visited # <<>> /\ Last(visited).k = "Break"
  /\ top.role = "while_body" /\ top.n = 1
  /\ Len(ks) >= 2 /\ ks[Len(ks) - 1].role = "for_body"
  /\ Last(bc_cur.code) = I("JUMP", top.l3, "")

\* C5: loop_stack holds exactly the loops whose bodies are being compiled,
\* innermost last (one entry pushed before a body, popped after it and before
\* the else-branch); it is empty when compilation completes; break and continue
\* jump to the targets of the innermost such loop and are rejected when there
\* is none.
C5_LoopStackDiscipline ==
  [][/\ loop_stack' = EntriesOf(ks', 1)
     /\ pc' = "done" => loop_stack' = <<>>
     /\ (Visits("Break") /\ pc' = "run") =>
          LoopFrames # {} /\ Last(Emitted) = I("JUMP", ks[InnermostOf(LoopFrames)].l3, "")
     /\ (Visits("Continue") /\ pc' = "run") =>
          LoopFrames # {} /\ Last(Emitted) = I("JUMP", ks[InnermostOf(LoopFrames)].l1, "")
     /\ ((Visits("Break") \/ Visits("Continue")) /\ LoopFrames = {}) => pc' = "fail"
    ]_vars

\* C5's case: a break compiled inside two nested loops
C5_Witness ==
  /\ pc = "run"
  /\ Len(loop_stack) = 2
  /\ visited # <<>> /\ Last(visited).k = "Break"
  /\ top.n = 1 /\ top.role \in LoopRoles

AssignX1 == S("Assign", "", 0, "", <<Tx, One>>)
AssignAB2 == S("Assign", "", 0, "", <<Ta, Tb, Num(2)>>)

CompiledAlone(st) == pc = "done" /\ syms = <<"NAME">> /\ visited = <<st>>

\* C6 as claimed: at module scope with NAME-resolved names `x = 1` emits
\* load_int(1); STORE_NAME_CONST "x" and `a = b = 2` emits load_int(2); DUP_TOP;
\* STORE_NAME_CONST "a"; STORE_NAME_CONST "b".
C6_StoreNameConst ==
  /\ CompiledAlone(AssignX1) =>
       SubSeq(codeobjs[1].code, 1, 2) =
         <<I("LOAD_CONST_SMALL_INT", 1, ""), I("STORE_NAME_CONST", 0, "x")>>
  /\ CompiledAlone(AssignAB2) =>
       SubSeq(codeobjs[1].code, 1, 4) =
         <<I("LOAD_CONST_SMALL_INT", 2, ""), I("DUP_TOP", 0, ""),
           I("STORE_NAME_CONST", 0, "a"), I("STORE_NAME_CONST", 0, "b")>>

RECURSIVE DupStores(_)
DupStores(ts) ==
  IF Len(ts) = 1 THEN <<I("STORE_NAME", 0, ts[1].s)>>
  ELSE <<I("DUP_TOP", 0, ""), I("STORE_NAME", 0, ts[1].s)>> \o DupStores(Tail(ts))

NameTargets(st) ==
  st.k = "Assign" /\ \A j \in 1..(Len(st.es) - 1) : st.es[j].k = "Name"

\* C6 as amended: the stores are STORE_NAME: `x = 1` emits load_int(1);
\* STORE_NAME "x", `a = b = 2` emits load_int(2); DUP_TOP; STORE_NAME "a";
\* STORE_NAME "b", and every assignment to NAME-resolved names emits its value
\* once, then DUP_TOP; STORE_NAME for each target but the last, left to right,
\* then STORE_NAME for the last.
C6_StoreName ==
  /\ CompiledAlone(AssignX1) =>
       SubSeq(codeobjs[1].code, 1, 2) =
         <<I("LOAD_CONST_SMALL_INT", 1, ""), I("STORE_NAME", 0, "x")>>
  /\ CompiledAlone(AssignAB2) =>
       SubSeq(codeobjs[1].code, 1, 4) =
         <<I("LOAD_CONST_SMALL_INT", 2, ""), I("DUP_TOP", 0, ""),
           I("STORE_NAME", 0, "a"), I("STORE_NAME", 0, "b")>>
  /\ \A st \in RichStmts :
       (NameTargets(st) /\ CompiledAlone(st)) =>
         codeobjs[1].code =
           visit(Last(st.es), Bytecode, "NAME").code \o DupStores(Front(st.es))
             \o <<I("LOAD_CONST_NONE", 0, ""), I("RETURN_VALUE", 0, "")>>

\* C6's case: the module `a = b = 2` compiled under a NAME symbol table
C6_Witness == CompiledAlone(AssignAB2)

RECURSIVE ExprOutside(_)
ExprOutside(e) ==
  \/ e.k \in {"Attribute", "Subscript", "Lambda", "NameConstant"}
  \/ e.k = "Call" /\ e.n > 0
  \/ e.k = "Compare" /\ e.n # 1
  \/ \E j \in Indices(e.xs) : ExprOutside(e.xs[j])

\* a statement with a node outside the supported subset
Outside(st) ==
  \/ st.k \in {"ClassDef", "Try", "With", "Delete"}
  \/ st.k = "FunctionDef" /\ st.f # "plain"
  \/ \E j \in Indices(st.es) : ExprOutside(st.es[j])

\* C7: a tree with a node outside the supported subset (a node kind without
\* lowering, a rejected shape) never compiles to completion.
C7_UnsupportedAborts ==
  pc = "done" => \A i \in Indices(visited) : ~Outside(visited[i])

IntLiteral(st) == st.k = "Expr" /\ st.es[1].k = "Num" /\ st.es[1].s = "int"

\* C8: an integer literal never aborts compilation: with |n| < 2^30 it is
\* emitted as load_int(n), outside that window through LOAD_CONST_OBJ.
C8_IntLiterals ==
  (visited # <<>> /\ IntLiteral(Last(visited))) =>
    LET n == Last(visited).es[1].n
    IN /\ err = ""
       /\ (pc = "run" /\ bc_cur.code # <<>> /\ Last(bc_cur.code).op = "POP_TOP") =>
            LET ld == bc_cur.code[Len(bc_cur.code) - 1]
            IN IF Abs(n) < 2 ^ 30
               THEN ld = I("LOAD_CONST_SMALL_INT", n, "")
               ELSE ld.op = "LOAD_CONST_OBJ"

\* C9: a break of a for loop jumps past the loop's else-branch (as a break of
\* a while does): no else-branch instruction lies at or after its target.
C9_ElseSkippedOnBreak ==
  \A i \in Indices(ks) :
    LET f == ks[i]
        b == bcs[BcIndex(i)]
    IN /\ f.role = "while_orelse" => b.labels[f.l3] = -1
       /\ (/\ f.role = "for_orelse"
           /\ \E j \in Indices(b.code) : b.code[j] = I("JUMP", f.l3, ""))
          => Len(b.code) = b.labels[f.l3]

\* C10: while a function body is compiled, a break or continue outside every
\* loop of that function is rejected.
C10_NoLoopLeak ==
  [][((Visits("Break") \/ Visits("Continue")) /\ OwnLoops = {}) => pc' = "fail"]_vars

====
